---------------------------- MODULE Spec2Model ----------------------------
(***************************************************************************)
(* Model of src/examples_postRequestPayload.js: the circuit breaker        *)
(* (circuitState, circuitBreaker, recordCircuitBreakerResult) and the      *)
(* retrying login (performLogin), run by several virtual users that share  *)
(* one circuitState.  JavaScript runs each function to completion, so a    *)
(* virtual user can be interleaved with the others only where it blocks:   *)
(* inside http.post (a request in flight) and inside sleep.                *)
(* Time is counted in whole seconds.  The program reads its timestamps     *)
(* only through differences (Date.now() - openSince, the length of a       *)
(* sleep), so the clock is kept at 0 and a passing second moves every      *)
(* stored timestamp one second into the past.                              *)
(***************************************************************************)
EXTENDS Integers, Sequences, FiniteSets, TLC

\* ------------------------------------------------------------ constants
CIRCUIT_MAX_FAILURES == 5
CIRCUIT_RESET_TIME == 30
MAX_RETRIES == 3
RETRY_INTERVAL == 2
USER_POOL_SIZE == 5

\* the virtual users of the scenario
VUs == {1, 2}

\* the largest pool size tried for generateUserPool
MaxPool == 6

\* time stops passing once the circuit has been open for MaxOpen seconds
MaxOpen == 32

\* Date.now(), in seconds: the origin of the time axis
now == 0

\* a nullable value: None is null, Some(x) a value
None == <<>>
Some(x) == <<x>>

\* ------------------------------------------------------------ responses
Absent == [type |-> "undefined", length |-> 0]
Str(n) == [type |-> "string", length |-> n]
Num == [type |-> "number", length |-> 0]

\* a response body: text that parses as JSON (valid) into an object with a
\* token field, or text that does not parse
Bodies ==
    {[valid |-> FALSE, token |-> Absent]} \cup
    {[valid |-> TRUE, token |-> t] : t \in {Absent, Num, Str(5), Str(10), Str(11)}}

Responses ==
    [status : {200, 500},
     body : Bodies,
     duration : {150, 2500},
     contentType : {"application/json", "text/html"}]

\* r.json(): the parsed body, or an exception
jsonThrows(r) == ~r.body.valid
json(r) == r.body

statusIs200(r) == r.status = 200

\* JavaScript truthiness of body.token
truthy(token) ==
    /\ token.type # "undefined"
    /\ ~(token.type = "string" /\ token.length = 0)

\* mutant: the catch lets a body that does not parse pass
hasValidTokenCatchPasses(r) ==
    IF jsonThrows(r) THEN TRUE
    ELSE /\ truthy(json(r).token)
         /\ json(r).token.type = "string"
         /\ json(r).token.length > 10

\* mutant: a token of exactly 10 characters is accepted
hasValidTokenLoose(r) ==
    IF jsonThrows(r) THEN FALSE
    ELSE /\ truthy(json(r).token)
         /\ json(r).token.type = "string"
         /\ json(r).token.length >= 10

hasValidToken(r) ==
    IF jsonThrows(r) THEN FALSE
    ELSE /\ truthy(json(r).token)
         /\ json(r).token.type = "string"
         /\ json(r).token.length > 10

responseTimeAcceptable(r) == r.duration < 2000

contentTypeIsJSON(r) == r.contentType = "application/json"

\* mutant: the token check is left out
checkIgnoresToken(r) ==
    /\ statusIs200(r)
    /\ responseTimeAcceptable(r)
    /\ contentTypeIsJSON(r)

\* check(response, {...}): true when every check passes
check(r) ==
    /\ statusIs200(r)
    /\ hasValidToken(r)
    /\ responseTimeAcceptable(r)
    /\ contentTypeIsJSON(r)

\* ------------------------------------------------------------ the gate
\* mutant: the delay grows linearly
backoffTimeLinear(r) == RETRY_INTERVAL * (r + 1)

backoffTime(r) == RETRY_INTERVAL * (2 ^ r)

\* mutant: the loop allows one attempt more
loopContinuesOneMore(r) == r <= MAX_RETRIES + 1

\* mutant: the loop stops one attempt early
loopContinuesStrict(r) == r < MAX_RETRIES

\* while (retries <= CONFIG.MAX_RETRIES)
loopContinues(r) == r <= MAX_RETRIES

\* if (retries < CONFIG.MAX_RETRIES) sleep(backoffTime)
shouldSleep(r) == r < MAX_RETRIES

\* mutant: the test after the loop is off by one
exhaustedOffByOne(r) == r > MAX_RETRIES + 1

\* if (retries > CONFIG.MAX_RETRIES) after the loop
exhausted(r) == r > MAX_RETRIES

\* mutant: the comparison with CIRCUIT_RESET_TIME is inverted
circuitBreakerInverted(cs, t) ==
    IF cs.openSince # None
    THEN LET elapsedSeconds == t - cs.openSince[1] IN
         IF elapsedSeconds > CIRCUIT_RESET_TIME
         THEN [ret |-> FALSE, state |-> cs]
         ELSE [ret |-> TRUE, state |-> [failures |-> 0, openSince |-> None]]
    ELSE [ret |-> TRUE, state |-> cs]

\* mutant: the gate still denies at exactly CIRCUIT_RESET_TIME seconds
circuitBreakerLate(cs, t) ==
    IF cs.openSince # None
    THEN LET elapsedSeconds == t - cs.openSince[1] IN
         IF elapsedSeconds <= CIRCUIT_RESET_TIME
         THEN [ret |-> FALSE, state |-> cs]
         ELSE [ret |-> TRUE, state |-> [failures |-> 0, openSince |-> None]]
    ELSE [ret |-> TRUE, state |-> cs]

\* circuitBreaker(operationName) at time t: the value returned and the state left
circuitBreaker(cs, t) ==
    IF cs.openSince # None
    THEN LET elapsedSeconds == t - cs.openSince[1] IN
         IF elapsedSeconds < CIRCUIT_RESET_TIME
         THEN [ret |-> FALSE, state |-> cs]
         ELSE [ret |-> TRUE, state |-> [failures |-> 0, openSince |-> None]]
    ELSE [ret |-> TRUE, state |-> cs]

\* mutant: openSince is set again by every failure past the threshold
recordCircuitBreakerResultOverwrite(cs, success, t) ==
    IF success
    THEN [cs EXCEPT !.failures = 0]
    ELSE LET n == cs.failures + 1 IN
         IF n >= CIRCUIT_MAX_FAILURES
         THEN [failures |-> n, openSince |-> Some(t)]
         ELSE [cs EXCEPT !.failures = n]

\* mutant: the gate opens only when the threshold is exceeded
recordCircuitBreakerResultStrict(cs, success, t) ==
    IF success
    THEN [cs EXCEPT !.failures = 0]
    ELSE LET n == cs.failures + 1 IN
         IF n > CIRCUIT_MAX_FAILURES /\ cs.openSince = None
         THEN [failures |-> n, openSince |-> Some(t)]
         ELSE [cs EXCEPT !.failures = n]

\* recordCircuitBreakerResult(success) at time t: the state left
recordCircuitBreakerResult(cs, success, t) ==
    IF success
    THEN [cs EXCEPT !.failures = 0]
    ELSE LET n == cs.failures + 1 IN
         IF n >= CIRCUIT_MAX_FAILURES /\ cs.openSince = None
         THEN [failures |-> n, openSince |-> Some(t)]
         ELSE [cs EXCEPT !.failures = n]

\* ------------------------------------------------------------ the user pool
\* a string is the sequence of its characters
Chars(c, n) == [k \in 1..n |-> c]

\* the decimal digits of a number, as `${i}` writes them
Digit(d) == <<"0", "1", "2", "3", "4", "5", "6", "7", "8", "9">>[d + 1]

RECURSIVE Decimal(_)
Decimal(n) == IF n < 10 THEN <<Digit(n)>> ELSE Decimal(n \div 10) \o <<Digit(n % 10)>>

\* what randomString(8), randomString(12) and uuidv4() may return
RandomStrings8 == {Chars("a", 8), Chars("b", 8)}
RandomStrings12 == {Chars("c", 12)}
Uuids == {<<"u", "1">>, <<"u", "2">>}

\* the random values one user of the pool is made from
Draws == [email : RandomStrings8, password : RandomStrings12, userId : Uuids]

\* mutant: the index is left out of the email
generateUserPoolNoIndex(poolSize, rnd) ==
    [k \in 1..poolSize |->
        LET i == k - 1 IN
        [email |-> <<"u", "s", "e", "r">> \o <<"_">> \o rnd[k].email
                   \o <<"@", "example.com">>,
         password |-> <<"Secure">> \o rnd[k].password \o <<"!">> \o Decimal(i),
         userId |-> rnd[k].userId]]

\* generateUserPool(poolSize), rnd[i + 1] being the random values drawn in
\* iteration i
generateUserPool(poolSize, rnd) ==
    [k \in 1..poolSize |->
        LET i == k - 1 IN
        [email |-> <<"u", "s", "e", "r">> \o Decimal(i) \o <<"_">> \o rnd[k].email
                   \o <<"@", "example.com">>,
         password |-> <<"Secure">> \o rnd[k].password \o <<"!">> \o Decimal(i),
         userId |-> rnd[k].userId]]

\* ------------------------------------------------------------ state
VARIABLES
    poolSize,      \* CONFIG.USER_POOL_SIZE
    healthCheck,   \* the status of setup's health probe, once made
    userPool,      \* the users setup generated
    response,      \* per virtual user: the response it received last, if traced
    phase,         \* "init" before setup, then "run" or "aborted"
    circuitState,  \* [failures, openSince]
    pc,            \* per virtual user: "idle", "inflight", "sleeping", "returned"
    retries,       \* per virtual user: performLogin's retries
    wakeAt,        \* per virtual user: when its sleep ends
    result,        \* per virtual user: what its last performLogin returned
    obs,           \* per virtual user: what its current or last performLogin did
    hist           \* the gate's history since the last success or reset

vars == <<phase, circuitState, pc, retries, wakeAt, result, obs, hist,
          poolSize, healthCheck, userPool, response>>

\* what one performLogin invocation did so far
NewObs ==
    [gate |-> "none",      \* what circuitBreaker returned: "denied" or "admitted"
     elapsed |-> None,     \* the seconds since openSince at that call, if open
     posts |-> 0,          \* http.post calls
     openPosts |-> 0,      \* those of them made while openSince was set
     seen |-> <<>>,        \* for each response received, whether it passed check
     sleeps |-> <<>>,      \* the sleep() calls, in order
     recFail |-> 0,        \* recordCircuitBreakerResult(false) calls
     recSucc |-> 0,        \* recordCircuitBreakerResult(true) calls
     payloads |-> 0,       \* bytesSent samples
     durations |-> 0,      \* requestDuration samples
     failSamples |-> 0,    \* loginFailRate samples
     logins |-> 0]         \* successfulLogins increments

\* The gate's history since the last recorded success or reset (or the start):
\* run: the recordCircuitBreakerResult(false) calls since then;
\* startOpen: openSince as it was left then; opens: the times openSince went
\* from null to set since then; thresholdAt: when run reached
\* CIRCUIT_MAX_FAILURES
NewHist(cs) ==
    [run |-> 0, startOpen |-> cs.openSince, opens |-> 0, thresholdAt |-> None]

\* the history h after recordCircuitBreakerResult(success) took cs to cs2
Recorded(h, cs, cs2, success) ==
    IF success
    THEN NewHist(cs2)
    ELSE [h EXCEPT !.run = @ + 1,
                   !.opens = @ + (IF cs.openSince = None /\ cs2.openSince # None
                                  THEN 1 ELSE 0),
                   !.thresholdAt = IF h.run + 1 = CIRCUIT_MAX_FAILURES
                                   THEN Some(now) ELSE @]

Start ==
    /\ phase = "init"
    /\ circuitState = [failures |-> 0, openSince |-> None]
    /\ pc = [v \in VUs |-> "idle"]
    /\ retries = [v \in VUs |-> 0]
    /\ wakeAt = [v \in VUs |-> 0]
    /\ result = [v \in VUs |-> None]
    /\ obs = [v \in VUs |-> NewObs]
    /\ hist = NewHist([failures |-> 0, openSince |-> None])
    /\ healthCheck = None
    /\ userPool = <<>>
    /\ response = [v \in VUs |-> None]

\* the script started with its default configuration
Init ==
    /\ Start
    /\ poolSize = USER_POOL_SIZE

\* the script started with USER_POOL_SIZE set in the environment
InitPool ==
    /\ Start
    /\ poolSize \in 1..MaxPool

\* mutant: the status of the health probe is not looked at
SetupIgnoresProbe(status, rnd) ==
    /\ phase = "init"
    /\ userPool' = generateUserPool(poolSize, rnd)
    /\ healthCheck' = Some(status)
    /\ phase' = "run"
    /\ UNCHANGED <<circuitState, pc, retries, wakeAt, result, obs, hist, poolSize>>

\* setup(): the user pool, then the health probe, which decides whether any
\* iteration runs (a throw in setup aborts the run)
Setup(status, rnd) ==
    /\ phase = "init"
    /\ userPool' = generateUserPool(poolSize, rnd)
    /\ healthCheck' = Some(status)
    /\ phase' = IF status # 200 THEN "aborted" ELSE "run"
    /\ UNCHANGED <<circuitState, pc, retries, wakeAt, result, obs, hist, poolSize>>

\* performLogin after its loop, with retries r, the gate cs, the history h, the
\* observation o and the local result res
AfterLoop(v, r, cs, h, o, res) ==
    /\ pc' = [pc EXCEPT ![v] = "returned"]
    /\ retries' = [retries EXCEPT ![v] = r]
    /\ wakeAt' = [wakeAt EXCEPT ![v] = 0]
    /\ IF exhausted(r)
       THEN LET cs2 == recordCircuitBreakerResult(cs, FALSE, now) IN
            /\ circuitState' = cs2
            /\ hist' = Recorded(h, cs, cs2, FALSE)
            /\ obs' = [obs EXCEPT ![v] = [o EXCEPT !.recFail = @ + 1]]
            /\ result' = [result EXCEPT ![v] = None]
       ELSE /\ circuitState' = cs
            /\ hist' = h
            /\ obs' = [obs EXCEPT ![v] = o]
            /\ result' = [result EXCEPT ![v] = res]

\* o after one more http.post, made with the gate at cs
Posted(o, cs) ==
    [o EXCEPT !.posts = @ + 1,
              !.openPosts = @ + (IF cs.openSince # None THEN 1 ELSE 0)]

\* mutant: the gate is asked again before every attempt
LoopTopChecksGate(v, r, cs, h, o) ==
    IF loopContinues(r) /\ circuitBreaker(cs, now).ret
    THEN /\ pc' = [pc EXCEPT ![v] = "inflight"]
         /\ retries' = [retries EXCEPT ![v] = r]
         /\ wakeAt' = [wakeAt EXCEPT ![v] = 0]
         /\ circuitState' = circuitBreaker(cs, now).state
         /\ hist' = IF circuitBreaker(cs, now).state = cs THEN h
                    ELSE NewHist(circuitBreaker(cs, now).state)
         /\ obs' = [obs EXCEPT ![v] = Posted(o, circuitBreaker(cs, now).state)]
         /\ result' = [result EXCEPT ![v] = None]
    ELSE AfterLoop(v, r, cs, h, o, None)

\* performLogin at the top of its loop: the next http.post, or the loop's end
LoopTop(v, r, cs, h, o) ==
    IF loopContinues(r)
    THEN /\ pc' = [pc EXCEPT ![v] = "inflight"]
         /\ retries' = [retries EXCEPT ![v] = r]
         /\ wakeAt' = [wakeAt EXCEPT ![v] = 0]
         /\ circuitState' = cs
         /\ hist' = h
         /\ obs' = [obs EXCEPT ![v] = Posted(o, cs)]
         /\ result' = [result EXCEPT ![v] = None]
    ELSE AfterLoop(v, r, cs, h, o, None)

\* performLogin(user) up to its first http.post: the gate, the payload, the
\* first request
Invoke(v) ==
    /\ phase = "run"
    /\ pc[v] \in {"idle", "returned"}
    /\ LET g == circuitBreaker(circuitState, now)
           el == IF circuitState.openSince = None THEN None
                 ELSE Some(now - circuitState.openSince[1])
           h == IF g.state = circuitState THEN hist ELSE NewHist(g.state)
       IN IF ~g.ret
          THEN /\ circuitState' = g.state
               /\ hist' = h
               /\ pc' = [pc EXCEPT ![v] = "returned"]
               /\ result' = [result EXCEPT ![v] = None]
               /\ obs' = [obs EXCEPT ![v] =
                             [NewObs EXCEPT !.gate = "denied", !.elapsed = el]]
               /\ UNCHANGED <<retries, wakeAt>>
          ELSE LoopTop(v, 0, g.state, h,
                       [NewObs EXCEPT !.gate = "admitted", !.elapsed = el,
                                      !.payloads = 1])
    /\ UNCHANGED <<phase, poolSize, healthCheck, userPool>>

\* http.post returns r: the checks, then success, backoff or exhaustion
Receive(v, r) ==
    /\ pc[v] = "inflight"
    /\ LET o == [obs[v] EXCEPT !.durations = @ + 1, !.seen = Append(@, check(r))] IN
       IF check(r)
       THEN LET cs2 == recordCircuitBreakerResult(circuitState, TRUE, now)
                h2 == Recorded(hist, circuitState, cs2, TRUE)
                o2 == [o EXCEPT !.logins = @ + 1, !.recSucc = @ + 1]
            IN IF ~jsonThrows(r)
               THEN AfterLoop(v, retries[v], cs2, h2, o2, Some(json(r)))
               ELSE LoopTop(v, retries[v], cs2, h2, o2)
       ELSE LET o2 == [o EXCEPT !.failSamples = @ + 1] IN
            IF shouldSleep(retries[v])
            THEN /\ pc' = [pc EXCEPT ![v] = "sleeping"]
                 /\ wakeAt' = [wakeAt EXCEPT ![v] = now + backoffTime(retries[v])]
                 /\ obs' = [obs EXCEPT ![v] =
                               [o2 EXCEPT !.sleeps = Append(@, backoffTime(retries[v]))]]
                 /\ UNCHANGED <<circuitState, hist, retries, result>>
            ELSE LoopTop(v, retries[v] + 1, circuitState, hist, o2)
    /\ UNCHANGED <<phase, poolSize, healthCheck, userPool>>

\* sleep(backoffTime) ends: retries++, and the loop goes on
Wake(v) ==
    /\ pc[v] = "sleeping"
    /\ now >= wakeAt[v]
    /\ LoopTop(v, retries[v] + 1, circuitState, hist, obs[v])
    /\ UNCHANGED <<phase, poolSize, healthCheck, userPool>>

\* a stored timestamp after one more second has passed
Older(stamp) == IF stamp = None THEN None ELSE Some(stamp[1] - 1)

\* a second passes: every stored timestamp is one second older; a sleeper
\* wakes when its time has come
Tick ==
    /\ phase = "run"
    /\ circuitState.openSince # None => now - circuitState.openSince[1] < MaxOpen
    /\ \A v \in VUs : pc[v] = "sleeping" => now < wakeAt[v]
    /\ circuitState' = [circuitState EXCEPT !.openSince = Older(@)]
    /\ hist' = [hist EXCEPT !.startOpen = Older(@), !.thresholdAt = Older(@)]
    /\ wakeAt' = [v \in VUs |-> IF pc[v] = "sleeping" THEN wakeAt[v] - 1 ELSE wakeAt[v]]
    /\ UNCHANGED <<phase, pc, retries, result, obs, poolSize, healthCheck, userPool>>

\* the random values of a run whose generator always returns the same
FixedDraws ==
    [k \in 1..poolSize |->
        [email |-> Chars("a", 8), password |-> Chars("c", 12), userId |-> <<"u", "1">>]]

\* The virtual users run together.  The random strings of the pool are fixed:
\* they reach nothing but the payload.  The responses are not kept.
Next ==
    \/ \E status \in {200, 503} : Setup(status, FixedDraws) /\ UNCHANGED response
    \/ \E v \in VUs : Invoke(v) /\ UNCHANGED response
    \/ \E v \in VUs, r \in Responses : Receive(v, r) /\ UNCHANGED response
    \/ \E v \in VUs : Wake(v) /\ UNCHANGED response
    \/ Tick /\ UNCHANGED response

Spec == Init /\ [][Next]_vars

\* One virtual user runs alone, and the response it received last is kept
\* until it goes on.
NextSolo ==
    \/ \E status \in {200, 503} : Setup(status, FixedDraws) /\ UNCHANGED response
    \/ \E v \in {1} : Invoke(v) /\ response' = [response EXCEPT ![v] = None]
    \/ \E v \in {1}, r \in Responses :
          Receive(v, r) /\ response' = [response EXCEPT ![v] = Some(r)]
    \/ \E v \in {1} : Wake(v) /\ response' = [response EXCEPT ![v] = None]
    \/ Tick /\ UNCHANGED response

SpecSolo == Init /\ [][NextSolo]_vars

\* setup alone, for every pool size and every outcome of the random
\* generators
NextPool ==
    \E status \in {200, 503}, rnd \in [1..poolSize -> Draws] :
        Setup(status, rnd) /\ UNCHANGED response

SpecPool == InitPool /\ [][NextPool]_vars

TypeOK ==
    /\ phase \in {"init", "run", "aborted"}
    /\ circuitState.failures \in Nat
    /\ circuitState.openSince # None => now - circuitState.openSince[1] \in 0..MaxOpen
    /\ \A v \in VUs : pc[v] \in {"idle", "inflight", "sleeping", "returned"}
    /\ \A v \in VUs : retries[v] \in 0..(MAX_RETRIES + 1)

\* ------------------------------------------------------------ claims
Open == circuitState.openSince # None

\* the seconds the gate has been open
Elapsed == now - circuitState.openSince[1]

Admitted(v) == obs[v].gate = "admitted"
Denied(v) == obs[v].gate = "denied"

\* the responses of v's invocation that failed the checks
Failed(v) == {k \in 1..Len(obs[v].seen) : ~obs[v].seen[k]}

\* C1: over consecutive recorded failures with no success or reset between
\* them, once there are CIRCUIT_MAX_FAILURES of them the gate is open, openSince
\* was set exactly once (when the threshold was reached) and later failures do
\* not overwrite it; a failure never touches an openSince set before the run;
\* and a circuitBreaker call made while the gate has been open for less than
\* CIRCUIT_RESET_TIME seconds returns false.
C1_OpensOnceThenDenies ==
    /\ hist.opens <= 1
    /\ hist.startOpen = None =>
          IF hist.run >= CIRCUIT_MAX_FAILURES
          THEN Open /\ hist.opens = 1 /\ circuitState.openSince = hist.thresholdAt
          ELSE ~Open /\ hist.opens = 0
    /\ hist.startOpen # None =>
          circuitState.openSince = hist.startOpen /\ hist.opens = 0
    /\ \A v \in VUs :
          (obs[v].elapsed # None /\ obs[v].elapsed[1] < CIRCUIT_RESET_TIME)
             => Denied(v)

\* more failures than the threshold were recorded in a row, the gate opened
\* before the last of them, and a caller was turned away while it cooled down
C1_Witness ==
    /\ hist.startOpen = None
    /\ hist.run > CIRCUIT_MAX_FAILURES
    /\ hist.opens = 1
    /\ Open /\ hist.thresholdAt # None /\ hist.thresholdAt[1] < now
    /\ \E v \in VUs : Denied(v) /\ obs[v].elapsed # None /\ obs[v].elapsed[1] > 0

\* C2: every recordCircuitBreakerResult(true) leaves failures at 0 and the gate
\* closed (openSince null).
C2_SuccessClosesGate ==
    [][(\E v \in VUs : obs'[v].recSucc > obs[v].recSucc)
          => (circuitState'.failures = 0 /\ circuitState'.openSince = None)]_vars

\* C3: openSince is set if and only if CIRCUIT_MAX_FAILURES failures or more
\* were recorded with no success since.
C3_OpenIffThresholdReached ==
    Open <=> hist.run >= CIRCUIT_MAX_FAILURES

\* C4 as stated: every response that fails the checks records one failure on
\* the gate, and an invocation that used up its retries records one more.
C4_FailureRecordedPerAttempt ==
    \A v \in VUs :
        obs[v].recFail = Cardinality(Failed(v))
                         + (IF Cardinality(Failed(v)) = MAX_RETRIES + 1 THEN 1 ELSE 0)

\* C4 as amended: a response that fails the checks records nothing on the
\* gate (only a loginFailRate sample); the invocation records exactly one
\* failure, after its response number MAX_RETRIES + 1 failed, and none before.
C4_FailureRecordedOnExhaustion ==
    \A v \in VUs :
        /\ obs[v].failSamples = Cardinality(Failed(v))
        /\ obs[v].recFail = IF Cardinality(Failed(v)) = MAX_RETRIES + 1 THEN 1 ELSE 0
        /\ pc[v] \in {"sleeping", "inflight"} => obs[v].recFail = 0

\* an invocation failed MAX_RETRIES + 1 times, slept between the attempts and
\* recorded its one failure, which the gate counts
C4_Witness ==
    \E v \in VUs :
        /\ pc[v] = "returned" /\ Admitted(v)
        /\ Cardinality(Failed(v)) = MAX_RETRIES + 1
        /\ Len(obs[v].sleeps) = MAX_RETRIES
        /\ obs[v].recFail = 1
        /\ circuitState.failures = 1

\* C5: an admitted invocation none of whose responses passed the checks has
\* returned null after exactly MAX_RETRIES + 1 http.post calls, and makes no
\* more than that many while it runs.
C5_ExhaustionAfterMaxRetriesPlusOne ==
    \A v \in VUs :
        (Admitted(v) /\ Failed(v) = 1..Len(obs[v].seen))
           => /\ obs[v].posts <= MAX_RETRIES + 1
              /\ pc[v] = "returned" =>
                    obs[v].posts = MAX_RETRIES + 1 /\ result[v] = None

\* an invocation has returned after four failed attempts
C5_Witness ==
    \E v \in VUs :
        /\ pc[v] = "returned" /\ Admitted(v)
        /\ Len(obs[v].seen) = MAX_RETRIES + 1
        /\ Failed(v) = 1..(MAX_RETRIES + 1)
        /\ obs[v].posts = MAX_RETRIES + 1
        /\ result[v] = None

\* C6: the k-th sleep of an invocation, the one before attempt k (counted from
\* 0), lasts RETRY_INTERVAL * 2^(k-1) seconds; every attempt but the first is
\* preceded by one sleep, and no sleep follows attempt MAX_RETRIES.
C6_BackoffDoubles ==
    \A v \in VUs :
        /\ \A k \in 1..Len(obs[v].sleeps) :
              obs[v].sleeps[k] = RETRY_INTERVAL * (2 ^ (k - 1))
        /\ Len(obs[v].sleeps) <= MAX_RETRIES
        /\ pc[v] = "sleeping" =>
              /\ Len(obs[v].sleeps) = obs[v].posts
              /\ wakeAt[v] - now <= obs[v].sleeps[Len(obs[v].sleeps)]
        /\ (pc[v] \in {"inflight", "returned"} /\ Admitted(v)) =>
              Len(obs[v].sleeps) = obs[v].posts - 1

\* an invocation slept 2, 4 and 8 seconds and returned after its last attempt
\* failed
C6_Witness ==
    \E v \in VUs :
        /\ pc[v] = "returned"
        /\ obs[v].sleeps = <<RETRY_INTERVAL, 2 * RETRY_INTERVAL, 4 * RETRY_INTERVAL>>
        /\ obs[v].posts = MAX_RETRIES + 1
        /\ Failed(v) = 1..(MAX_RETRIES + 1)

\* C7: an admitted invocation whose first response passed the checks has
\* returned the parsed body, with a token of more than 10 characters, after
\* one http.post, no sleep, one recorded success and no recorded failure.
C7_FirstAttemptSuccess ==
    \A v \in VUs :
        (Admitted(v) /\ Len(obs[v].seen) >= 1 /\ obs[v].seen[1])
           => /\ pc[v] = "returned"
              /\ obs[v].posts = 1
              /\ obs[v].sleeps = <<>>
              /\ obs[v].recSucc = 1
              /\ obs[v].recFail = 0
              /\ result[v] # None
              /\ result[v][1].token.type = "string"
              /\ result[v][1].token.length > 10

\* an invocation has returned a token from its first attempt
C7_Witness ==
    \E v \in VUs :
        /\ pc[v] = "returned" /\ Admitted(v)
        /\ obs[v].seen = <<TRUE>>
        /\ result[v] = Some([valid |-> TRUE, token |-> Str(11)])

\* C8: an invocation that found the gate open for less than CIRCUIT_RESET_TIME
\* seconds has returned null with no http.post, no payload, no sleep and no
\* result recorded on the gate.
C8_DeniedDoesNothing ==
    \A v \in VUs :
        (obs[v].elapsed # None /\ obs[v].elapsed[1] < CIRCUIT_RESET_TIME)
           => /\ pc[v] = "returned"
              /\ result[v] = None
              /\ obs[v].posts = 0
              /\ obs[v].payloads = 0
              /\ obs[v].durations = 0
              /\ obs[v].sleeps = <<>>
              /\ obs[v].recFail = 0
              /\ obs[v].recSucc = 0

\* an invocation was turned away one second before the cool-down ended
C8_Witness ==
    \E v \in VUs :
        /\ Denied(v)
        /\ obs[v].elapsed = Some(CIRCUIT_RESET_TIME - 1)
        /\ obs[v].posts = 0
        /\ pc[v] = "returned"

InvokeStep(v) ==
    /\ pc[v] \in {"idle", "returned"}
    /\ pc'[v] # pc[v] \/ obs'[v] # obs[v]

\* C10 as stated: circuitBreaker on an open gate resets it and returns true
\* when more than CIRCUIT_RESET_TIME seconds have passed since openSince, and
\* otherwise returns false and changes nothing.
C10_ResetWhenElapsedExceeds ==
    [][\A v \in VUs :
          (InvokeStep(v) /\ Open) =>
             IF Elapsed > CIRCUIT_RESET_TIME
             THEN /\ circuitState' = [failures |-> 0, openSince |-> None]
                  /\ obs'[v].gate = "admitted"
             ELSE /\ circuitState' = circuitState
                  /\ obs'[v].gate = "denied"]_vars

\* C10 as amended: circuitBreaker on an open gate resets it and returns true
\* when at least CIRCUIT_RESET_TIME seconds have passed since openSince, and
\* returns false and changes nothing when fewer have.
C10_ResetWhenElapsedReaches ==
    [][\A v \in VUs :
          (InvokeStep(v) /\ Open) =>
             IF Elapsed >= CIRCUIT_RESET_TIME
             THEN /\ circuitState' = [failures |-> 0, openSince |-> None]
                  /\ obs'[v].gate = "admitted"
             ELSE /\ circuitState' = circuitState
                  /\ obs'[v].gate = "denied"]_vars

\* a call made exactly CIRCUIT_RESET_TIME seconds after the gate opened was
\* admitted and left the gate closed with no failures
C10_Witness ==
    \E v \in VUs :
        /\ Admitted(v)
        /\ obs[v].elapsed = Some(CIRCUIT_RESET_TIME)
        /\ obs[v].posts = 1
        /\ pc[v] = "inflight"
        /\ circuitState = [failures |-> 0, openSince |-> None]

\* the last element of a sequence
Last(seq) == seq[Len(seq)]

\* v's last response was handled as a failed attempt: a loginFailRate sample,
\* no result, and then the backoff sleep before the next attempt or, after
\* attempt MAX_RETRIES, the failure recorded on the gate and the return
HandledAsFailure(v) ==
    /\ ~Last(obs[v].seen)
    /\ obs[v].failSamples = Cardinality(Failed(v))
    /\ obs[v].failSamples = Len(obs[v].seen)
    /\ obs[v].logins = 0
    /\ result[v] = None
    /\ IF Len(obs[v].seen) <= MAX_RETRIES
       THEN /\ pc[v] = "sleeping"
            /\ retries[v] = Len(obs[v].seen) - 1
            /\ Len(obs[v].sleeps) = Len(obs[v].seen)
            /\ Last(obs[v].sleeps) = RETRY_INTERVAL * (2 ^ (Len(obs[v].seen) - 1))
            /\ wakeAt[v] - now <= Last(obs[v].sleeps)
            /\ obs[v].recFail = 0
       ELSE /\ pc[v] = "returned"
            /\ Len(obs[v].sleeps) = MAX_RETRIES
            /\ obs[v].recFail = 1

\* C11: a response passes exactly when its status is 200, its body parses, its
\* token is a string of more than 10 characters, it took less than 2000 ms and
\* its Content-Type is application/json; every response that does not pass, a
\* 200 with a token of 10 characters or fewer among them, is handled as a
\* failed attempt.
C11_PassNeedsEveryCheck ==
    \A v \in VUs :
        response[v] # None =>
            LET r == response[v][1] IN
            /\ Last(obs[v].seen) <=>
                  /\ r.status = 200
                  /\ r.body.valid
                  /\ r.body.token.type = "string"
                  /\ r.body.token.length > 10
                  /\ r.duration < 2000
                  /\ r.contentType = "application/json"
            /\ (r.status = 200 /\ r.body.token.type = "string" /\ r.body.token.length <= 10)
                  => ~Last(obs[v].seen)
            /\ ~Last(obs[v].seen) => HandledAsFailure(v)

\* a quick JSON 200 response with a token of 10 characters was received on the
\* second attempt, and the third attempt waits for its backoff
C11_Witness ==
    \E v \in VUs :
        /\ response[v] = Some([status |-> 200,
                               body |-> [valid |-> TRUE, token |-> Str(10)],
                               duration |-> 150,
                               contentType |-> "application/json"])
        /\ obs[v].seen = <<FALSE, FALSE>>
        /\ pc[v] = "sleeping"
        /\ obs[v].sleeps = <<RETRY_INTERVAL, 2 * RETRY_INTERVAL>>

\* what an invocation at p with retries r may still do: two steps (the
\* response, the sleep) for each attempt left
Measure(p, r) ==
    IF p \in {"idle", "returned"} THEN 0
    ELSE 2 * (MAX_RETRIES + 1 - r) - (IF p = "sleeping" THEN 1 ELSE 0)

\* C12: whatever the responses, every step of an admitted invocation (a
\* response received, a sleep ended) brings it closer to its return, and it
\* never makes more than MAX_RETRIES + 1 http.post calls.
C12_BoundedAttempts ==
    [][\A v \in VUs :
          (pc[v] \in {"inflight", "sleeping"} /\ (pc'[v] # pc[v] \/ obs'[v] # obs[v]))
             => /\ Measure(pc'[v], retries'[v]) < Measure(pc[v], retries[v])
                /\ Measure(pc'[v], retries'[v]) >= 0
                /\ obs'[v].posts <= MAX_RETRIES + 1
                /\ Len(obs'[v].seen) <= obs'[v].posts]_vars

\* an invocation returned a result from its last allowed attempt, after three
\* failed ones
C12_Witness ==
    \E v \in VUs :
        /\ pc[v] = "returned"
        /\ obs[v].seen = <<FALSE, FALSE, FALSE, TRUE>>
        /\ obs[v].posts = MAX_RETRIES + 1
        /\ result[v] # None

\* C13: an admitted invocation that has returned after n responses has added n
\* samples each to requestDuration, to bytesSent and to loginFailRate.
C13_SamplesPerAttempt ==
    \A v \in VUs :
        (pc[v] = "returned" /\ Admitted(v))
           => /\ obs[v].durations = Len(obs[v].seen)
              /\ obs[v].payloads = Len(obs[v].seen)
              /\ obs[v].failSamples = Len(obs[v].seen)

\* C14: a response whose body does not parse as JSON is handled as a failed
\* attempt, whatever its status, duration and Content-Type: the invocation
\* goes on to its backoff sleep with one attempt used up, or returns null
\* after attempt MAX_RETRIES, and never makes more than MAX_RETRIES + 1
\* requests.
C14_MalformedJsonIsFailure ==
    \A v \in VUs :
        (response[v] # None /\ ~response[v][1].body.valid)
           => /\ HandledAsFailure(v)
              /\ obs[v].posts = Len(obs[v].seen)
              /\ obs[v].posts <= MAX_RETRIES + 1
              /\ obs[v].recSucc = 0

\* a quick 200 response with Content-Type application/json and a body that
\* does not parse came first, and the invocation sleeps before its retry
C14_Witness ==
    \E v \in VUs :
        /\ response[v] = Some([status |-> 200,
                               body |-> [valid |-> FALSE, token |-> Absent],
                               duration |-> 150,
                               contentType |-> "application/json"])
        /\ obs[v].seen = <<FALSE>>
        /\ pc[v] = "sleeping"
        /\ obs[v].sleeps = <<RETRY_INTERVAL>>
        /\ retries[v] = 0

\* C15: once the health probe has returned a status other than 200 the run is
\* aborted: no virtual user ever calls performLogin and no login request is
\* made.
C15_FailedProbeStopsRun ==
    (healthCheck # None /\ healthCheck[1] # 200)
       => /\ phase = "aborted"
          /\ \A v \in VUs :
                /\ pc[v] = "idle"
                /\ obs[v].gate = "none"
                /\ obs[v].posts = 0

\* setup generated its users, the probe returned 503 and the run is aborted
C15_Witness ==
    /\ healthCheck = Some(503)
    /\ phase = "aborted"
    /\ Len(userPool) = USER_POOL_SIZE

\* C16: the pool setup generated holds poolSize users, in the order of their
\* index, and no two of them have the same email, whatever the random
\* generators returned.
C16_PoolOfDistinctUsers ==
    phase # "init"
       => /\ Len(userPool) = poolSize
          /\ \A j, k \in 1..Len(userPool) :
                j # k => userPool[j].email # userPool[k].email
          /\ \A k \in 1..Len(userPool) :
                SubSeq(userPool[k].email, 1, 4 + Len(Decimal(k - 1)))
                   = <<"u", "s", "e", "r">> \o Decimal(k - 1)

\* a pool of 5 users, two of which drew the same random string and the same
\* uuid
C16_Witness ==
    /\ poolSize = 5
    /\ Len(userPool) = 5
    /\ \E j, k \in 1..Len(userPool) :
          /\ j # k
          /\ userPool[j].userId = userPool[k].userId
          /\ SubSeq(userPool[j].email, 6, Len(userPool[j].email))
                = SubSeq(userPool[k].email, 6, Len(userPool[k].email))
          /\ userPool[j].email # userPool[k].email

\* C17: circuitBreaker is called once per invocation, before the first
\* attempt: no later step of the invocation changes what the gate answered or
\* resets the gate, and a sleep that ends is always followed by the next
\* http.post, whether the gate is open or not.
C17_GateAskedOnce ==
    [][\A v \in VUs :
          (pc[v] \in {"inflight", "sleeping"} /\ (pc'[v] # pc[v] \/ obs'[v] # obs[v]))
             => /\ obs'[v].gate = "admitted"
                /\ obs'[v].gate = obs[v].gate
                /\ obs'[v].elapsed = obs[v].elapsed
                /\ Open => circuitState'.openSince = circuitState.openSince
                /\ pc[v] = "sleeping" =>
                      /\ pc'[v] = "inflight"
                      /\ obs'[v].posts = obs[v].posts + 1
                      /\ obs'[v].openPosts = obs[v].openPosts + (IF Open THEN 1 ELSE 0)]_vars

\* the other virtual user opened the gate while this one's first request was
\* in flight; this one made its three retries all the same, and returned
\* while the gate was still cooling down
C17_Witness ==
    \E v \in VUs :
        /\ pc[v] = "returned" /\ Admitted(v)
        /\ obs[v].posts = MAX_RETRIES + 1
        /\ obs[v].openPosts = MAX_RETRIES
        /\ Open /\ Elapsed < CIRCUIT_RESET_TIME
        /\ \E w \in VUs : w # v /\ Denied(w)

=============================================================================
